---- MODULE Spec2Model ----
(***************************************************************************)
(* Model of week1/workout_analyzer/workout_analyzer.py:                    *)
(* WorkoutPerformanceAnalyzer, its collection self.workouts, the two       *)
(* operations that grow it (load_data, add_workout) and its six queries.   *)
(*                                                                         *)
(* Representation.                                                         *)
(*  - A Python str used as a date is a sequence of digit characters, each  *)
(*    a natural number, compared the way Python compares str (StrLess).    *)
(*  - A Python dict is a function; its keys are the function's DOMAIN.     *)
(*  - reps and weight are integers (JSON integers are exact in Python);    *)
(*    the quotient of avg_reps is an exact fraction [num, den].            *)
(*  - A WorkoutSet keeps reps and weight, the two fields the operations    *)
(*    read; exercise, rpe, date and notes of a set are stored and never    *)
(*    read by any operation.                                               *)
(*  - A JSON object is a record plus the set of keys it really has.        *)
(***************************************************************************)
EXTENDS Integers, Sequences, FiniteSets, TLC

VARIABLES workouts, op, arg, ret, raised

vars == <<workouts, op, arg, ret, raised>>

\* Cap on the length of the collection explored.
MaxSessions == 2

----------------------------------------------------------------------------
(* Input domains *)

\* Python None, as a default argument and as a return value.
None == "<None>"

\* Date texts of sessions. "10" < "2" as text although 10 > 2 as numbers.
Dates == {<<1, 0>>, <<2>>}

\* A date text that no session carries.
DateArgs == Dates \cup {<<3>>}

Exercises == {"Squat", "Bench"}

\* Exercise arguments of queries: the empty name and a name without sessions too.
ExerciseArgs == Exercises \cup {"", "Deadlift"}

\* WorkoutSet values (reps, weight).
Light == [reps |-> 5, weight |-> 100]

Heavy == [reps |-> 3, weight |-> 120]

\* The sets of a session: none, one, two with the heavier last or first.
SetLists == {<<>>, <<Light>>, <<Light, Heavy>>, <<Heavy, Light>>}

\* total_volume a caller leaves on a WorkoutSession: the default 0.0 or a stale value.
CallerVolumes == {0, 999}

\* WorkoutSession objects a caller hands to add_workout.
CallerSessions ==
    [date : Dates, exercise : Exercises, sets : SetLists,
     total_volume : CallerVolumes, duration_minutes : {45}]

\* Counts passed to get_recent_workouts: negative, zero, small, and the default 7.
Counts == {-1, 0, 1, 2, 7}

----------------------------------------------------------------------------
(* Text, numbers, dicts *)

\* Python's  a < b  on str: by character, a proper prefix is smaller.
RECURSIVE StrLess(_, _)
StrLess(a, b) ==
    IF a = <<>> THEN b # <<>>
    ELSE IF b = <<>> THEN FALSE
    ELSE IF Head(a) # Head(b) THEN Head(a) < Head(b)
    ELSE StrLess(Tail(a), Tail(b))

Max2(a, b) == IF a >= b THEN a ELSE b

RECURSIVE Gcd(_, _)
Gcd(a, b) == IF b = 0 THEN a ELSE Gcd(b, a % b)

\* Python's  n / d  for d > 0, as an exact fraction in lowest terms.
TrueDiv(n, d) == [num |-> n \div Gcd(n, d), den |-> d \div Gcd(n, d)]

\* The int 0 as a fraction.
Zero == TrueDiv(0, 1)

EmptyDict == [k \in {} |-> 0]

\* d.get(k, default)
DictGet(d, k, default) == IF k \in DOMAIN d THEN d[k] ELSE default

\* d[k] = v
DictSet(d, k, v) == [x \in (DOMAIN d) \cup {k} |-> IF x = k THEN v ELSE d[x]]

\* Python truth value of an optional str: None and "" are false.
Truthy(x) == x # None /\ x # ""

Front(s) == SubSeq(s, 1, Len(s) - 1)

Last(s) == s[Len(s)]

----------------------------------------------------------------------------
(* calculate_total_volume and the per-session maximum *)

RECURSIVE calculate_total_volume(_)
calculate_total_volume(sets) ==
    IF sets = <<>> THEN 0
    ELSE Head(sets).reps * Head(sets).weight + calculate_total_volume(Tail(sets))

\* max((s.weight for s in sets), default=0)
RECURSIVE MaxWeightDefault0(_)
MaxWeightDefault0(sets) ==
    IF sets = <<>> THEN 0
    ELSE IF Len(sets) = 1 THEN sets[1].weight
    ELSE Max2(Head(sets).weight, MaxWeightDefault0(Tail(sets)))

\* sum(s.reps for s in sets)
RECURSIVE SumReps(_)
SumReps(sets) == IF sets = <<>> THEN 0 ELSE Head(sets).reps + SumReps(Tail(sets))

----------------------------------------------------------------------------
(* The input file of load_data *)

RequiredSetKeys == {"exercise", "reps", "weight", "rpe", "date"}

SessionKeys == {"date", "exercise", "sets", "duration_minutes"}

\* A JSON set object: the keys it has, and the values under "reps" and "weight".
JsonSet(e, keys) == [keys |-> keys, reps |-> e.reps, weight |-> e.weight]

\* Set objects lacking one required key each.
BadJsonSets == {JsonSet(Heavy, RequiredSetKeys \ {k}) : k \in RequiredSetKeys}

JsonSession(keys, d, x, sets) ==
    [keys |-> keys, date |-> d, exercise |-> x, sets |-> sets, duration_minutes |-> 45]

\* JSON session objects: complete ones with no set or two sets, one without the
\* optional keys, ones lacking a required session key, ones holding a bad set.
JsonSessions ==
    {JsonSession(SessionKeys, d, x, sets) :
        d \in Dates, x \in Exercises,
        sets \in {<<>>, <<JsonSet(Light, RequiredSetKeys), JsonSet(Heavy, RequiredSetKeys \cup {"notes"})>>}}
    \cup {JsonSession({"date", "exercise"}, <<2>>, "Squat", <<>>)}
    \cup {JsonSession(SessionKeys \ {k}, <<2>>, "Squat", <<>>) : k \in {"date", "exercise"}}
    \cup {JsonSession(SessionKeys, <<2>>, "Bench", <<JsonSet(Light, RequiredSetKeys), b>>) :
            b \in BadJsonSets}

\* The "sessions" arrays of the files: up to two session objects, and no more
\* than the collection explored has room for.
SessionArrays(room) ==
    {<<>>}
    \cup (IF room >= 1 THEN {<<a>> : a \in JsonSessions} ELSE {})
    \cup (IF room >= 2 THEN {<<a, b>> : a \in JsonSessions, b \in JsonSessions} ELSE {})

\* What file_path can name: nothing, a file that cannot be opened for reading,
\* text that is not JSON, or a JSON object with or without the key "sessions".
Files(room) ==
    {[kind |-> k, keys |-> {}, sessions |-> <<>>] : k \in {"missing", "unreadable", "malformed", "json"}}
    \cup {[kind |-> "json", keys |-> {"sessions"}, sessions |-> q] : q \in SessionArrays(room)}

\* The exception open() or json.load() raises on the file, or None.
ReadError(file) ==
    CASE file.kind = "missing"    -> "FileNotFoundError"
      [] file.kind = "unreadable" -> "PermissionError"
      [] file.kind = "malformed"  -> "JSONDecodeError"
      [] OTHER                    -> None

\* The except clauses of load_data.
Handled == {"FileNotFoundError", "JSONDecodeError"}

\* data.get('sessions', [])
DataSessions(file) == IF "sessions" \in file.keys THEN file.sessions ELSE <<>>

\* session.get('sets', [])
SessionSets(session) == IF "sets" \in session.keys THEN session.sets ELSE <<>>

\* s['exercise'], s['reps'], s['weight'], s['rpe'], s['date'] of some set, or
\* session['date'], session['exercise'], raises KeyError.
HasKeyError(session) ==
    \/ \E i \in 1 .. Len(SessionSets(session)) :
            ~ (RequiredSetKeys \subseteq SessionSets(session)[i].keys)
    \/ ~ ({"date", "exercise"} \subseteq session.keys)

\* [WorkoutSet(...) for s in session.get('sets', [])]
BuildSets(session) ==
    [i \in 1 .. Len(SessionSets(session)) |->
        [reps |-> SessionSets(session)[i].reps, weight |-> SessionSets(session)[i].weight]]

\* WorkoutSession(...) followed by workout.total_volume = calculate_total_volume(sets)
BuildWorkout(session) ==
    [date |-> session.date,
     exercise |-> session.exercise,
     sets |-> BuildSets(session),
     total_volume |-> calculate_total_volume(BuildSets(session)),
     duration_minutes |->
        IF "duration_minutes" \in session.keys THEN session.duration_minutes ELSE 0]

\* A variant that puts the new session in front.
AppendedInFront(ws, workout) == <<workout>> \o ws

\* self.workouts.append(workout)
Appended(ws, workout) == Append(ws, workout)

\* The for loop of load_data: sessions are appended one by one until one raises.
RECURSIVE LoadLoop(_, _)
LoadLoop(ws, sessions) ==
    IF sessions = <<>> THEN [workouts |-> ws, error |-> None]
    ELSE IF HasKeyError(Head(sessions)) THEN [workouts |-> ws, error |-> "KeyError"]
    ELSE LoadLoop(Appended(ws, BuildWorkout(Head(sessions))), Tail(sessions))

\* load_data as a whole: the collection it leaves and the exception it ends with.
LoadOutcome(ws, file) ==
    IF ReadError(file) # None
    THEN [workouts |-> ws, error |-> ReadError(file)]
    ELSE LoadLoop(ws, DataSessions(file))

\* What the caller of load_data sees: None, or the exception no clause catches.
Propagates(error) == IF error \in Handled THEN None ELSE error

\* A variant of add_workout that trusts the caller's total_volume.
RecomputedNever(workout) == workout

\* add_workout: the session as stored.
Recomputed(workout) ==
    [workout EXCEPT !.total_volume = calculate_total_volume(workout.sets)]

----------------------------------------------------------------------------
(* Sorting by date *)

\* list.sort / sorted are stable: an element goes after the elements whose key
\* is not larger (ascending) or not smaller (reverse=True).
RECURSIVE InsertAscending(_, _)
InsertAscending(sorted, w) ==
    IF sorted = <<>> THEN <<w>>
    ELSE IF StrLess(w.date, Head(sorted).date) THEN <<w>> \o sorted
    ELSE <<Head(sorted)>> \o InsertAscending(Tail(sorted), w)

RECURSIVE InsertDescending(_, _)
InsertDescending(sorted, w) ==
    IF sorted = <<>> THEN <<w>>
    ELSE IF StrLess(Head(sorted).date, w.date) THEN <<w>> \o sorted
    ELSE <<Head(sorted)>> \o InsertDescending(Tail(sorted), w)

\* exercise_workouts.sort(key=lambda w: w.date)
RECURSIVE SortByDate(_)
SortByDate(ws) ==
    IF ws = <<>> THEN <<>> ELSE InsertAscending(SortByDate(Front(ws)), Last(ws))

\* sorted(self.workouts, key=lambda w: w.date, reverse=True)
RECURSIVE SortByDateReverse(_)
SortByDateReverse(ws) ==
    IF ws = <<>> THEN <<>> ELSE InsertDescending(SortByDateReverse(Front(ws)), Last(ws))

\* s[:n] of a list
SliceTo(s, n) ==
    IF n >= 0
    THEN SubSeq(s, 1, IF n < Len(s) THEN n ELSE Len(s))
    ELSE SubSeq(s, 1, IF Len(s) + n > 0 THEN Len(s) + n ELSE 0)

----------------------------------------------------------------------------
(* Queries *)

\* A variant that keeps the latest session's maximum instead of the running one.
NewRecordLatest(current_pr, max_weight) == max_weight

\* prs[workout.exercise] = max(current_pr, max_weight)
NewRecord(current_pr, max_weight) == Max2(current_pr, max_weight)

RECURSIVE RecordsLoop(_, _, _)
RecordsLoop(prs, ws, exercise) ==
    IF ws = <<>> THEN prs
    ELSE IF Truthy(exercise) /\ Head(ws).exercise # exercise
         THEN RecordsLoop(prs, Tail(ws), exercise)
         ELSE RecordsLoop(
                DictSet(prs, Head(ws).exercise,
                        NewRecord(DictGet(prs, Head(ws).exercise, 0),
                                  MaxWeightDefault0(Head(ws).sets))),
                Tail(ws), exercise)

get_personal_records(ws, exercise) ==
    LET prs == RecordsLoop(EmptyDict, ws, exercise)
    IN  IF ~ Truthy(exercise) THEN prs
        ELSE DictSet(EmptyDict, exercise, DictGet(prs, exercise, 0))

\* [w for w in self.workouts if w.exercise == exercise]
ExerciseWorkouts(ws, exercise) == SelectSeq(ws, LAMBDA w : w.exercise = exercise)

\* A variant that forgets to sort.
ProgressionOrderUnsorted(exercise_workouts) == exercise_workouts

\* The sequence the progression loop walks.
ProgressionOrder(exercise_workouts) == SortByDate(exercise_workouts)

calculate_progression(ws, exercise) ==
    LET exercise_workouts == ExerciseWorkouts(ws, exercise)
        sorted == ProgressionOrder(exercise_workouts)
    IN  IF exercise_workouts = <<>>
        THEN [error |-> <<"No data for", exercise>>]
        ELSE [exercise |-> exercise,
              total_sessions |-> Len(sorted),
              date_range |-> [start |-> sorted[1].date, end |-> Last(sorted).date],
              volume_progression |->
                 [i \in 1 .. Len(sorted) |->
                    [date |-> sorted[i].date, volume |-> sorted[i].total_volume]],
              max_weight_progression |->
                 [i \in 1 .. Len(sorted) |->
                    [date |-> sorted[i].date, weight |-> MaxWeightDefault0(sorted[i].sets)]]]

\* A variant that assigns where the code adds.
AccumulatedOverwriting(volumes, workout) ==
    DictSet(volumes, workout.exercise, workout.total_volume)

\* if workout.exercise not in volumes: volumes[...] = 0; volumes[...] += total_volume
Accumulated(volumes, workout) ==
    DictSet(volumes, workout.exercise,
            DictGet(volumes, workout.exercise, 0) + workout.total_volume)

RECURSIVE VolumesLoop(_, _)
VolumesLoop(volumes, ws) ==
    IF ws = <<>> THEN volumes ELSE VolumesLoop(Accumulated(volumes, Head(ws)), Tail(ws))

get_volume_by_exercise(ws) == VolumesLoop(EmptyDict, ws)

\* next((w for w in self.workouts if w.date == date), None): the index of the
\* session found, 0 standing for None.
RECURSIVE FirstOnDate(_, _, _)
FirstOnDate(ws, date, i) ==
    IF i > Len(ws) THEN 0
    ELSE IF ws[i].date = date THEN i
    ELSE FirstOnDate(ws, date, i + 1)

\* A variant that keeps the last session of the date instead of the first.
FoundLast(ws, date) ==
    IF \E i \in 1 .. Len(ws) : ws[i].date = date
    THEN CHOOSE i \in 1 .. Len(ws) :
            ws[i].date = date /\ \A j \in (i + 1) .. Len(ws) : ws[j].date # date
    ELSE 0

\* The session the summary is made of.
Found(ws, date) == FirstOnDate(ws, date, 1)

get_session_summary(ws, date) ==
    LET session == ws[Found(ws, date)]
    IN  IF Found(ws, date) = 0
        THEN [error |-> <<"No workout found on", date>>]
        ELSE [date |-> session.date,
              exercise |-> session.exercise,
              total_volume |-> session.total_volume,
              sets_count |-> Len(session.sets),
              max_weight |-> MaxWeightDefault0(session.sets),
              avg_reps |-> IF session.sets # <<>>
                           THEN TrueDiv(SumReps(session.sets), Len(session.sets))
                           ELSE Zero,
              duration_minutes |-> session.duration_minutes]

\* A variant that sorts oldest first.
RecentOrderAscending(ws) == SortByDate(ws)

\* The order get_recent_workouts slices.
RecentOrder(ws) == SortByDateReverse(ws)

\* asdict of a session is the session's record itself.
get_recent_workouts(ws, days) == SliceTo(RecentOrder(ws), days)

\* list(prs.keys()): the exercises in the order of their first session.
RECURSIVE KeysInOrder(_)
KeysInOrder(ws) ==
    IF ws = <<>> THEN <<>>
    ELSE LET before == KeysInOrder(Front(ws))
         IN  IF \E i \in 1 .. Len(before) : before[i] = Last(ws).exercise
             THEN before ELSE Append(before, Last(ws).exercise)

\* sum(volumes.values())
RECURSIVE SumValues(_)
SumValues(d) ==
    IF DOMAIN d = {} THEN 0
    ELSE LET k == CHOOSE x \in DOMAIN d : TRUE
         IN  d[k] + SumValues([x \in (DOMAIN d) \ {k} |-> d[x]])

\* min(w.date for w in self.workouts), max(w.date for w in self.workouts)
MinDate(ws) ==
    CHOOSE d \in {ws[i].date : i \in 1 .. Len(ws)} :
        \A j \in 1 .. Len(ws) : ~ StrLess(ws[j].date, d)

MaxDate(ws) ==
    CHOOSE d \in {ws[i].date : i \in 1 .. Len(ws)} :
        \A j \in 1 .. Len(ws) : ~ StrLess(d, ws[j].date)

ReportLimit == 5

generate_report(ws) ==
    IF ws = <<>>
    THEN [error |-> <<"No workout data available">>]
    ELSE [total_sessions |-> Len(ws),
          exercises_tracked |-> KeysInOrder(ws),
          personal_records |-> get_personal_records(ws, None),
          total_volume_by_exercise |-> get_volume_by_exercise(ws),
          total_volume_overall |-> SumValues(get_volume_by_exercise(ws)),
          date_range |-> [start |-> MinDate(ws), end |-> MaxDate(ws)],
          recent_workouts |-> get_recent_workouts(ws, ReportLimit)]

----------------------------------------------------------------------------
(* The state machine *)

\* __init__ without data_file: an empty collection.
Init ==
    /\ workouts = <<>>
    /\ op = "__init__"
    /\ arg = None
    /\ ret = None
    /\ raised = None

load_data ==
    \E file \in Files(MaxSessions - Len(workouts)) :
        /\ workouts' = LoadOutcome(workouts, file).workouts
        /\ op' = "load_data"
        /\ arg' = file
        /\ ret' = None
        /\ raised' = Propagates(LoadOutcome(workouts, file).error)

add_workout ==
    /\ Len(workouts) < MaxSessions
    /\ \E workout \in CallerSessions :
        /\ workouts' = Appended(workouts, Recomputed(workout))
        /\ op' = "add_workout"
        /\ arg' = workout
        /\ ret' = None
        /\ raised' = None

\* A query returns a value and touches nothing else.
Returns(name, argument, value) ==
    /\ op' = name
    /\ arg' = argument
    /\ ret' = value
    /\ raised' = None
    /\ UNCHANGED workouts

Call_get_personal_records ==
    \E exercise \in ExerciseArgs \cup {None} :
        Returns("get_personal_records", exercise, get_personal_records(workouts, exercise))

Call_calculate_progression ==
    \E exercise \in ExerciseArgs :
        Returns("calculate_progression", exercise, calculate_progression(workouts, exercise))

Call_get_volume_by_exercise ==
    Returns("get_volume_by_exercise", None, get_volume_by_exercise(workouts))

Call_get_session_summary ==
    \E date \in DateArgs :
        Returns("get_session_summary", date, get_session_summary(workouts, date))

Call_get_recent_workouts ==
    \E days \in Counts :
        Returns("get_recent_workouts", days, get_recent_workouts(workouts, days))

Call_generate_report ==
    Returns("generate_report", None, generate_report(workouts))

Next ==
    \/ load_data
    \/ add_workout
    \/ Call_get_personal_records
    \/ Call_calculate_progression
    \/ Call_get_volume_by_exercise
    \/ Call_get_session_summary
    \/ Call_get_recent_workouts
    \/ Call_generate_report

Spec == Init /\ [][Next]_vars

----------------------------------------------------------------------------
(* Vocabulary of the properties, defined without the operators above *)

\* Lexicographic order on texts.
LexLess(a, b) ==
    \/ Len(a) < Len(b) /\ \A i \in 1 .. Len(a) : a[i] = b[i]
    \/ \E i \in 1 .. (IF Len(a) < Len(b) THEN Len(a) ELSE Len(b)) :
            a[i] < b[i] /\ \A j \in 1 .. (i - 1) : a[j] = b[j]

LexLeq(a, b) == a = b \/ LexLess(a, b)

\* Sum over k in 1..n of term[k].
RECURSIVE Sigma(_, _)
Sigma(term, n) == IF n = 0 THEN 0 ELSE Sigma(term, n - 1) + term[n]

\* Sum of reps * weight over the sets of a session.
VolumeOf(sets) == Sigma([k \in 1 .. Len(sets) |-> sets[k].reps * sets[k].weight], Len(sets))

\* Largest element of a set of numbers, 0 for the empty set.
Largest(S) == IF S = {} THEN 0 ELSE CHOOSE m \in S : \A y \in S : m >= y

WeightsIn(sets) == {sets[k].weight : k \in 1 .. Len(sets)}

\* Positions of the sessions of exercise x, and of date d, in the collection.
SessionsOf(x) == {i \in 1 .. Len(workouts) : workouts[i].exercise = x}

SessionsOn(d) == {i \in 1 .. Len(workouts) : workouts[i].date = d}

ExercisesPresent == {workouts[i].exercise : i \in 1 .. Len(workouts)}

\* Every set weight recorded for exercise x.
WeightsOf(x) == UNION {WeightsIn(workouts[i].sets) : i \in SessionsOf(x)}

\* Sum of the recomputed volumes of the sessions at the positions 1..n that are in I.
VolumeOver(I) ==
    Sigma([i \in 1 .. Len(workouts) |-> IF i \in I THEN VolumeOf(workouts[i].sets) ELSE 0],
          Len(workouts))

\* One-to-one maps from 1..n into the positions I.
Arrangements(n, I) == {f \in [1 .. n -> I] : \A a, b \in 1 .. n : f[a] = f[b] => a = b}

IsPrefix(s, t) == Len(s) <= Len(t) /\ \A i \in 1 .. Len(s) : s[i] = t[i]

IsError(r) == "error" \in DOMAIN r

QueryNames ==
    {"get_personal_records", "calculate_progression", "get_volume_by_exercise",
     "get_session_summary", "get_recent_workouts", "generate_report"}

----------------------------------------------------------------------------
(* Properties *)

\* C1: every session in the collection has total_volume equal to the sum over
\* its sets of reps * weight (0 without sets), whatever total_volume the caller
\* of add_workout had put on it.
C1_StoredVolumeIsRecomputed ==
    \A i \in 1 .. Len(workouts) : workouts[i].total_volume = VolumeOf(workouts[i].sets)

\* C1 witness: add_workout has stored a session that came with a stale
\* total_volume of 999 and two sets.
C1_Witness ==
    /\ op = "add_workout"
    /\ arg.total_volume = 999
    /\ arg.sets = <<Light, Heavy>>
    /\ Last(workouts).total_volume = 860

\* C2 (as claimed): a load_data whose source is missing, unreadable or not JSON
\* leaves the collection as it was and returns normally.
C2_FailedLoadIsHarmless ==
    [][(op' = "load_data" /\ arg'.kind \in {"missing", "unreadable", "malformed"})
          => (workouts' = workouts /\ raised' = None)]_<<workouts, op, raised>>

\* C3 (as claimed): no operation ends in an unhandled failure: add_workout,
\* every query, and load_data on a source that opens and parses (the sources
\* that do not are C2's) return normally; a well-formed document with an item
\* lacking a required key still has its other items ingested.
C3_NoUnhandledFailure ==
    (op = "load_data" => arg.kind = "json")
        => /\ raised = None
           /\ op = "load_data"
                => Len(workouts) >= Cardinality({k \in 1 .. Len(DataSessions(arg)) :
                                                    ~ HasKeyError(DataSessions(arg)[k])})

\* C4: get_personal_records() without a filter has exactly the exercise names
\* present as keys, and each value is the largest set weight of all sessions of
\* that exercise (0 when they have no sets), so it is >= every such weight.
C4_RecordsUnfiltered ==
    (op = "get_personal_records" /\ arg = None)
        => /\ DOMAIN ret = ExercisesPresent
           /\ \A x \in ExercisesPresent :
                /\ ret[x] = Largest(WeightsOf(x))
                /\ \A w \in WeightsOf(x) : ret[x] >= w

\* C4 witness: two sessions of one exercise, the earlier one holding the
\* heavier set, and the record is that heavier weight.
C4_Witness ==
    /\ op = "get_personal_records" /\ arg = None
    /\ Len(workouts) = 2
    /\ workouts[1].exercise = workouts[2].exercise
    /\ workouts[1].sets = <<Heavy, Light>>
    /\ workouts[2].sets = <<Light>>
    /\ ret[workouts[1].exercise] = 120

\* C5 (as claimed): get_personal_records(X), for every text X, the empty name
\* included, returns exactly one entry, keyed X, valued the largest set weight
\* of the sessions of X, or 0 without such a session.
C5_RecordsFiltered ==
    (op = "get_personal_records" /\ arg # None)
        => /\ DOMAIN ret = {arg}
           /\ ret[arg] = Largest(WeightsOf(arg))

\* C6: the values of get_volume_by_exercise() sum to the sum over all sessions of
\* the volume recomputed from the session's sets, each exercise's value is the
\* sum over its own sessions, and generate_report's total_volume_overall is the
\* same total.
C6_VolumeByExercise ==
    /\ op = "get_volume_by_exercise"
          => /\ DOMAIN ret = ExercisesPresent
             /\ \A x \in ExercisesPresent : ret[x] = VolumeOver(SessionsOf(x))
             /\ LET names == CHOOSE q \in [1 .. Cardinality(DOMAIN ret) -> DOMAIN ret] :
                                \A x \in DOMAIN ret : \E k \in DOMAIN q : q[k] = x
                IN  Sigma([k \in DOMAIN names |-> ret[names[k]]], Len(names))
                        = VolumeOver(1 .. Len(workouts))
    /\ (op = "generate_report" /\ ~ IsError(ret))
          => ret.total_volume_overall = VolumeOver(1 .. Len(workouts))

\* C6 witness: two sessions of the same exercise and date, both with volume,
\* whose volumes have been added up.
C6_Witness ==
    /\ op = "get_volume_by_exercise"
    /\ Len(workouts) = 2
    /\ workouts[1].exercise = workouts[2].exercise
    /\ workouts[1].date = workouts[2].date
    /\ workouts[1].sets = <<Light, Heavy>>
    /\ workouts[2].sets = <<Light>>
    /\ ret[workouts[1].exercise] = 1360

RecentWithLimit(n) ==
    /\ Len(ret) <= n
    /\ n >= Len(workouts) => Len(ret) = Len(workouts)
    /\ \A k \in 1 .. (Len(ret) - 1) : LexLeq(ret[k + 1].date, ret[k].date)
    /\ \E f \in Arrangements(Len(workouts), 1 .. Len(workouts)) :
          /\ \A k \in 1 .. Len(ret) : ret[k] = workouts[f[k]]
          /\ \A k \in 1 .. Len(ret) : \A m \in (Len(ret) + 1) .. Len(workouts) :
                LexLeq(workouts[f[m]].date, ret[k].date)

C9_SessionSummary ==
    op = "get_session_summary"
        => /\ IsError(ret) <=> SessionsOn(arg) = {}
           /\ ~ IsError(ret) =>
                LET first == CHOOSE i \in SessionsOn(arg) : \A j \in SessionsOn(arg) : i <= j
                    sets == workouts[first].sets
                    reps == Sigma([k \in 1 .. Len(sets) |-> sets[k].reps], Len(sets))
                IN  /\ ret.date = arg
                    /\ ret.exercise = workouts[first].exercise
                    /\ ret.duration_minutes = workouts[first].duration_minutes
                    /\ ret.sets_count = Len(sets)
                    /\ ret.total_volume = VolumeOf(sets)
                    /\ ret.max_weight = Largest(WeightsIn(sets))
                    /\ ret.avg_reps.den > 0
                    /\ IF sets = <<>>
                       THEN ret.avg_reps.num = 0
                       ELSE ret.avg_reps.num * Len(sets) = reps * ret.avg_reps.den

\* C9 witness: two sessions of the date asked for; the first, with the sets
\* (5 x 100, 3 x 120), is the one summarised.
C9_Witness ==
    /\ op = "get_session_summary"
    /\ Len(workouts) = 2
    /\ workouts[1].date = arg /\ workouts[2].date = arg
    /\ workouts[1].sets = <<Light, Heavy>> /\ workouts[2].sets = <<>>
    /\ ret.total_volume = 860 /\ ret.max_weight = 120
    /\ ret.avg_reps = [num |-> 4, den |-> 1] /\ ret.sets_count = 2

\* C10: the collection is append-only: every step leaves the old collection a
\* prefix of the new one, a query leaves it unchanged, add_workout appends
\* exactly the session given, and a load_data that returns appends the
\* document's sessions at the end in source order.
C10_AppendOnly ==
    [][/\ IsPrefix(workouts, workouts')
       /\ op' \in QueryNames => workouts' = workouts
       /\ op' = "add_workout" =>
            /\ Len(workouts') = Len(workouts) + 1
            /\ Last(workouts').date = arg'.date
            /\ Last(workouts').exercise = arg'.exercise
            /\ Last(workouts').sets = arg'.sets
       /\ (op' = "load_data" /\ raised' = None /\ arg'.kind = "json") =>
            /\ Len(workouts') = Len(workouts) + Len(DataSessions(arg'))
            /\ \A k \in 1 .. Len(DataSessions(arg')) :
                  /\ workouts'[Len(workouts) + k].date = DataSessions(arg')[k].date
                  /\ workouts'[Len(workouts) + k].exercise = DataSessions(arg')[k].exercise
      ]_<<workouts, op, raised>>

\* C10 witness: a load_data of two sessions of different dates has returned on
\* a collection that now holds them in source order.
C10_Witness ==
    /\ op = "load_data" /\ raised = None
    /\ Len(DataSessions(arg)) = 2
    /\ Len(workouts) = 2
    /\ workouts[1].date = <<2>> /\ workouts[2].date = <<1, 0>>
    /\ DataSessions(arg)[1].date = <<2>>

====
